---- MODULE Spec2Model ----
(***************************************************************************)
(* Model of cp2/canvas.py: the UndoHistory transaction log and the Canvas  *)
(* event dispatch, scroll offset and paint pass.                           *)
(*                                                                         *)
(* Python lists are 0-indexed; the model keeps undo_stack as a TLA+        *)
(* sequence and reads position i of the code with At(undo_stack, i).       *)
(* Python floats are modelled as exact rationals <<n, d>> (d > 0, lowest   *)
(* terms), so that divisions by coef keep their value.                     *)
(***************************************************************************)
EXTENDS Integers, Sequences, FiniteSets, TLC

\* ------------------------------------------------------------------ bounds
\* Longest undo_stack the model lets add_transaction build (sentinel included).
MaxStack == 4
\* Largest number of colors in the document.
MaxColors == 2
\* Most events the toolkit dispatches between two completed paint passes.
MaxPending == 1
\* Largest number of colors of a document the canvas is opened with.
MaxLayoutColors == 12

\* ------------------------------------------------------------- UndoHistory
VARIABLES undo_stack, index, saved_index,
          hop, hprev, executed, notified, discarded, everSaved,
          nAdd, nUndo, plain, supplied, savedApplied

\* hop .. plain observe the calls: the last and the previous call, the actions
\* the last call ran, whether it called canvas.reflect_transaction(), how many
\* entries it discarded, whether set_saved() was ever called, and, while the
\* run is N add_transaction calls (non-empty lists) followed by M undo calls
\* (plain), the counts N and M.  supplied[i] is the transaction, as the caller
\* supplied it, whose undo actions position i of undo_stack holds; savedApplied
\* is supplied[1 .. index] as it was at the last set_saved() call, or Lost once
\* add_transaction has replaced one of those transactions by another.
hvars == <<undo_stack, index, saved_index, hop, hprev, executed, notified,
           discarded, everSaved, nAdd, nUndo, plain, supplied, savedApplied>>

\* The canvas that owns the history.
VARIABLES dc_w, dc_h, ncolors,
          width, height, virtual_h, cell_max, max_dy, dy, left_pressed,
          bbox, active, hover, tbbox, start, coef,
          ev, called, pt, pending

\* dc_w, dc_h: what dc.get_size() returns; ncolors: len(doc.model.colors).
\* ev and called observe the last event: its name and, in order, the objects
\* of z_order whose handler it ran, and the pointer position of a move or a
\* press.  pending counts the events since the last completed paint pass.
cvars == <<dc_w, dc_h, ncolors, width, height, virtual_h, cell_max, max_dy,
           dy, left_pressed, bbox, active, hover, tbbox, start, coef,
           ev, called, pt, pending>>

vars == <<hvars, cvars>>

\* Python's None in a slot of a transaction entry.
None == <<"None">>

\* bool(v) of a slot: None and the empty list are false.
Truthy(v) == v # None /\ v # <<>>

\* undo_stack[i] of the code (0-indexed).
At(s, i) == s[i + 1]

\* The transactions callers hand to add_transaction: <<undo_actions, redo_actions>>.
\* An action stands for a bound callable (callable, arg0, ...).
Transactions ==
    { <<<<"u1">>, <<"r1">>>>,
      <<<<"u1", "u2">>, <<"r2", "r1">>>>,
      <<<<"u2">>, <<>>>>,
      <<<<>>, <<"r2">>>> }

NonEmptyTransactions == { t \in Transactions : t[1] # <<>> /\ t[2] # <<>> }

\* The saved sequence of transactions is no longer in the log.
Lost == << <<<<"lost">>, <<"lost">>>> >>

IsPrefix(a, b) == Len(a) <= Len(b) /\ SubSeq(b, 1, Len(a)) = a

is_redo == Truthy(At(undo_stack, index)[2])

\* A comparison slip: every index at or past the saved one counts as saved.
is_saved_atleast == index >= saved_index

is_saved == index = saved_index

\* class attributes index = 0, saved_index = 0 and __init__ (lines 45-50).
SavedIndexInit == 0

HistoryInit ==
    /\ undo_stack = << <<None, None>> >>
    /\ index = 0
    /\ saved_index = SavedIndexInit
    /\ hop = "init"
    /\ hprev = "init"
    /\ executed = <<>>
    /\ notified = FALSE
    /\ discarded = 0
    /\ everSaved = FALSE
    /\ nAdd = 0
    /\ nUndo = 0
    /\ plain = TRUE
    /\ supplied = <<>>
    /\ savedApplied = <<>>

\* undo_stack after add_transaction(t): truncate after index, set the redo
\* slot of the last entry, append [t[0], None].
\* The truncation forgotten: the entries after index stay.
Truncated_keep(s, i) == s

Truncated(s, i) == IF i < Len(s) - 1 THEN SubSeq(s, 1, i + 1) ELSE s

\* Line 55 forgotten: the redo actions are never stored.
SetLastRedo_skip(s, r) == s

SetLastRedo(s, r) == [s EXCEPT ![Len(s)] = <<s[Len(s)][1], r>>]

\* The redo actions stored with the new entry instead of the one before it.
Pushed_redoOnNew(s, i, t) == Append(Truncated(s, i), <<t[1], t[2]>>)

Pushed(s, i, t) == Append(SetLastRedo(Truncated(s, i), t[2]), <<t[1], None>>)

add_transaction(t) ==
    /\ UNCHANGED cvars
    /\ Len(Truncated(undo_stack, index)) < MaxStack
    /\ undo_stack' = Pushed(undo_stack, index, t)
    /\ index' = index + 1
    /\ UNCHANGED <<saved_index, everSaved>>
    /\ hop' = "add_transaction"
    /\ hprev' = hop
    /\ discarded' = Len(undo_stack) - Len(Truncated(undo_stack, index))
    /\ executed' = <<>>
    /\ notified' = TRUE
    /\ plain' = (plain /\ nUndo = 0 /\ t \in NonEmptyTransactions)
    /\ nAdd' = IF plain' THEN nAdd + 1 ELSE 0
    /\ nUndo' = 0
    /\ supplied' = Append(SubSeq(supplied, 1, index), t)
    /\ savedApplied' = IF IsPrefix(savedApplied, supplied')
                       THEN savedApplied
                       ELSE Lost

set_saved ==
    /\ UNCHANGED cvars
    /\ saved_index' = index
    /\ UNCHANGED <<undo_stack, index>>
    /\ hop' = "set_saved"
    /\ hprev' = hop
    /\ discarded' = 0
    /\ everSaved' = TRUE
    /\ executed' = <<>>
    /\ notified' = FALSE
    /\ plain' = FALSE
    /\ nAdd' = 0
    /\ nUndo' = 0
    /\ savedApplied' = SubSeq(supplied, 1, index)
    /\ UNCHANGED supplied

\* The guard off by one: index 0 counts as undoable.
is_undo_nonneg == index >= 0

is_undo == index > 0

\* The actions undo() and redo() run at position i of the stack s.
UndoActions(s, i) == At(s, i)[1]

\* The undo list of the next entry replayed instead of the redo list.
RedoActions_undoList(s, i) == At(s, i + 1)[1]

RedoActions(s, i) == At(s, i)[2]

undo ==
    /\ UNCHANGED cvars
    /\ IF is_undo
       THEN /\ executed' = UndoActions(undo_stack, index)
            /\ index' = index - 1
            /\ notified' = TRUE
       ELSE /\ executed' = <<>>
            /\ index' = index
            /\ notified' = FALSE
    /\ UNCHANGED <<undo_stack, saved_index, everSaved>>
    /\ hop' = "undo"
    /\ hprev' = hop
    /\ discarded' = 0
    /\ plain' = (plain /\ is_undo)
    /\ nAdd' = IF plain' THEN nAdd ELSE 0
    /\ nUndo' = IF plain' THEN nUndo + 1 ELSE 0
    /\ UNCHANGED <<supplied, savedApplied>>

redo ==
    /\ UNCHANGED cvars
    /\ IF is_redo
       THEN /\ executed' = RedoActions(undo_stack, index)
            /\ index' = index + 1
            /\ notified' = TRUE
       ELSE /\ executed' = <<>>
            /\ index' = index
            /\ notified' = FALSE
    /\ UNCHANGED <<undo_stack, saved_index, everSaved>>
    /\ hop' = "redo"
    /\ hprev' = hop
    /\ discarded' = 0
    /\ plain' = FALSE
    /\ nAdd' = 0
    /\ nUndo' = 0
    /\ UNCHANGED <<supplied, savedApplied>>

HistoryNext ==
    \/ \E t \in Transactions : add_transaction(t)
    \/ set_saved
    \/ undo
    \/ redo


\* ---------------------------------------------------------------- rationals
\* A Python float is the exact rational <<n, d>>, d > 0, in lowest terms.
RECURSIVE GCD(_, _)
GCD(a, b) == IF b = 0 THEN a ELSE GCD(b, a % b)

Abs(a) == IF a < 0 THEN -a ELSE a

Norm(n, d) ==
    LET sn == IF d < 0 THEN -n ELSE n
        sd == Abs(d)
        g == GCD(Abs(sn), sd)
    IN  <<sn \div g, sd \div g>>

R(i) == <<i, 1>>
QAdd(a, b) == Norm(a[1] * b[2] + b[1] * a[2], a[2] * b[2])
QSub(a, b) == Norm(a[1] * b[2] - b[1] * a[2], a[2] * b[2])
QMul(a, b) == Norm(a[1] * b[1], a[2] * b[2])
QDiv(a, b) == Norm(a[1] * b[2], a[2] * b[1])
QLess(a, b) == a[1] * b[2] < b[1] * a[2]
QLeq(a, b) == a[1] * b[2] <= b[1] * a[2]
\* math.floor and the float // : the largest integer not above a.
QFloor(a) == a[1] \div a[2]
QMin(a, b) == IF QLess(b, a) THEN b ELSE a

\* Python's // and math.ceil(a / b) on integers, for a divisor of either sign.
PyFloorDiv(a, b) == IF b > 0 THEN a \div b ELSE (-a) \div (-b)
PyCeilDiv(a, b) == -PyFloorDiv(-a, b)

\* ------------------------------------------------------------------- config
\* cp2.config values read by canvas.py (the pixel sizes are scaled down).
canvas_border == 30
cell_width == 60
cell_height == 60
scroll_hover == 6
scroll_normal == 3
mouse_scroll_sensitivity == 30
\* The logo image and the extents of the text under it.
logo_w == 20
logo_h == 20
ext_width == 10
ext_height == 4

\* --------------------------------------------------------------- the canvas
\* z_order, topmost first: positions of the objects in the list.
LogoObj == 1
ScrollObj == 2
AddButtonObj == 3
ColorGrid == 4
BackgroundObj == 5
z_order == <<LogoObj, ScrollObj, AddButtonObj, ColorGrid, BackgroundObj>>
Objs == 1..Len(z_order)
\* left_pressed = None.
NoObj == 0

NO_BBOX == <<R(0), R(0), R(0), R(0)>>
\* ScrollObj.start = None.
NoPoint == <<>>

\* Pointer positions, viewport sizes and wheel deltas the events are drawn from.
Points == { <<60, 60>>, <<60, 45>>, <<110, 30>>, <<147, 45>> }
Sizes == { <<150, 60>>, <<90, 30>> }
ScrollDeltas == {-1, 1, 3}

\* The comparisons written with <= : the edges of the box count as inside.
in_bbox_closed(b, point) ==
    /\ QLeq(b[1], R(point[1]))
    /\ QLeq(R(point[1]), b[3])
    /\ QLeq(b[2], R(point[2]))
    /\ QLeq(R(point[2]), b[4])

in_bbox(b, point) ==
    /\ QLess(b[1], R(point[1]))
    /\ QLess(R(point[1]), b[3])
    /\ QLess(b[2], R(point[2]))
    /\ QLess(R(point[2]), b[4])

is_over(obj, point) == in_bbox(bbox[obj], point)

\* The class attributes of Canvas, CanvasObj and ScrollObj.
CanvasAttrs ==
    /\ width = 0
    /\ height = 0
    /\ virtual_h = 0
    /\ cell_max = 5
    /\ max_dy = 0
    /\ dy = R(0)
    /\ left_pressed = NoObj
    /\ bbox = [o \in Objs |-> NO_BBOX]
    /\ active = [o \in Objs |-> TRUE]
    /\ hover = [o \in Objs |-> FALSE]
    /\ tbbox = NO_BBOX
    /\ start = NoPoint
    /\ coef = R(1)
    /\ ev = "init"
    /\ called = <<>>
    /\ pt = NoPoint
    /\ pending = 0

\* A canvas built for a new (empty) document.
CanvasInit ==
    /\ \E size \in Sizes : dc_w = size[1] /\ dc_h = size[2]
    /\ ncolors = 0
    /\ CanvasAttrs

\* ---- paint
\* Canvas.paint, lines 512-521: the values it computes from the viewport size,
\* the color count and dy.  It raises ZeroDivisionError when cell_max is 0.
PaintCellMax(w) == PyFloorDiv(w - 2 * canvas_border, cell_width)

PaintVirtualH(n, cm) == 2 * canvas_border + PyCeilDiv(n, cm) * cell_height

PaintMaxDy(vh, h) == IF vh - h > 0 THEN vh - h ELSE 0

PaintDy(d, mdy) == QMin(d, R(mdy))

\* BackgroundObj.paint
BackgroundBBox(w, h) == <<R(0), R(0), R(w), R(h)>>

\* AddButtonObj.paint
AddButtonYCount(n, cm) == IF cm # 0 THEN PyFloorDiv(n, cm) ELSE 0

AddButtonXCount(n, cm) == n - cm * AddButtonYCount(n, cm)

AddButtonBBox(n, cm, d) ==
    LET x == canvas_border + AddButtonXCount(n, cm) * cell_width
        y == canvas_border + AddButtonYCount(n, cm) * cell_height
    IN  << R(x + 10), QSub(R(y + 10), d),
           R(x + 10 + cell_width - 20), QSub(R(y + 10 + cell_height - 20), d) >>

\* ColorGrid.paint, lines 332-370: x_count and y_count after k more colors.
RECURSIVE GridCounter(_, _, _, _)
GridCounter(k, cm, x_count, y_count) ==
    IF k = 0
    THEN [x_count |-> x_count, y_count |-> y_count]
    ELSE IF x_count + 1 = cm
         THEN GridCounter(k - 1, cm, 0, y_count + 1)
         ELSE GridCounter(k - 1, cm, x_count + 1, y_count)

\* The slot the loop of ColorGrid.paint is at after laying out n colors.
ColorGridSlot(n, cm) == GridCounter(n, cm, 0, 0)

\* ScrollObj.paint
ScrollBBox(w, h) == <<R(w - scroll_hover), R(0), R(w), R(h)>>

ScrollActive(vh, h) == vh > h

ScrollCoef(vh, h) == IF vh > h THEN Norm(h, vh) ELSE R(1)

ScrollTBBox(w, h, vh, d, hov) ==
    IF vh > h
    THEN LET c == Norm(h, vh)
             sw == IF hov THEN scroll_hover ELSE scroll_normal
             rect_h == QMul(R(h), c)
             y == QAdd(d, QMul(d, c))
         IN  <<R(w - sw), y, R(w), QAdd(y, rect_h)>>
    ELSE NO_BBOX

\* LogoObj.paint
LogoBBox(w, h) ==
    LET dx == w - logo_w - canvas_border
        ly == h - logo_h - canvas_border
        mid == QAdd(R(dx), Norm(logo_w, 2))
        half == Norm(ext_width, 2)
    IN  <<QSub(mid, half), R(ly), QAdd(mid, half),
          R(ly + logo_h + 10 + ext_height)>>

paint ==
    /\ called' = <<>>
    /\ pt' = NoPoint
    /\ cell_max' = PaintCellMax(dc_w)
    /\ IF cell_max' = 0
       THEN \* ZeroDivisionError at line 518: nothing after it runs
            /\ ev' = "paint_raised"
            /\ UNCHANGED <<virtual_h, max_dy, dy, width, height, bbox, active,
                           tbbox, coef, pending>>
       ELSE /\ ev' = "paint"
            /\ pending' = 0
            /\ virtual_h' = PaintVirtualH(ncolors, cell_max')
            /\ max_dy' = PaintMaxDy(virtual_h', dc_h)
            /\ dy' = PaintDy(dy, max_dy')
            /\ width' = dc_w
            /\ height' = dc_h
            /\ bbox' = [o \in Objs |->
                  CASE o = BackgroundObj -> BackgroundBBox(width', height')
                    [] o = ColorGrid -> bbox[o]
                    [] o = AddButtonObj -> AddButtonBBox(ncolors, cell_max', dy')
                    [] o = ScrollObj -> ScrollBBox(width', height')
                    [] o = LogoObj -> IF ncolors = 0
                                      THEN LogoBBox(width', height')
                                      ELSE bbox[o]]
            /\ tbbox' = ScrollTBBox(width', height', virtual_h', dy',
                                    hover[ScrollObj])
            /\ coef' = ScrollCoef(virtual_h', height')
            /\ active' = [active EXCEPT ![ScrollObj] = ScrollActive(virtual_h', height'),
                                        ![LogoObj] = (ncolors = 0)]
    /\ UNCHANGED <<dc_w, dc_h, ncolors, left_pressed, hover, start>>
    /\ UNCHANGED hvars

\* An event other than the paint pass is dispatched.
Event(name) ==
    /\ pending < MaxPending
    /\ pending' = pending + 1
    /\ ev' = name

\* ---- the environment: the window is resized, the document is edited
resize(w, h) ==
    /\ <<w, h>> # <<dc_w, dc_h>>
    /\ dc_w' = w
    /\ dc_h' = h
    /\ Event("resize")
    /\ called' = <<>>
    /\ pt' = NoPoint
    /\ UNCHANGED <<ncolors, width, height, virtual_h, cell_max, max_dy, dy,
                   left_pressed, bbox, active, hover, tbbox, start, coef>>
    /\ UNCHANGED hvars

edit_colors(n) ==
    /\ n # ncolors
    /\ ncolors' = n
    /\ Event("edit")
    /\ called' = <<>>
    /\ pt' = NoPoint
    /\ UNCHANGED <<dc_w, dc_h, width, height, virtual_h, cell_max, max_dy, dy,
                   left_pressed, bbox, active, hover, tbbox, start, coef>>
    /\ UNCHANGED hvars

\* ---- pointer move
\* CanvasObj.on_move: the value it returns and the hover flags it leaves.
CanvasObj_on_move(obj, point, hv) ==
    IF active[obj]
    THEN IF is_over(obj, point)
         THEN [ret |-> TRUE, hover |-> [hv EXCEPT ![obj] = TRUE]]
         ELSE [ret |-> FALSE, hover |-> [hv EXCEPT ![obj] = FALSE]]
    ELSE [ret |-> FALSE, hover |-> hv]

\* The loop of Canvas.on_move over z_order from position i on.
RECURSIVE MoveLoop(_, _, _, _)
MoveLoop(i, point, hv, seen) ==
    IF i > Len(z_order)
    THEN [hover |-> hv, called |-> seen]
    ELSE LET r == CanvasObj_on_move(z_order[i], point, hv)
         IN  IF r.ret
             THEN [hover |-> r.hover, called |-> Append(seen, z_order[i])]
             ELSE MoveLoop(i + 1, point, r.hover, Append(seen, z_order[i]))

\* ScrollObj.on_move while it holds the capture: the thumb drag.
DragDy(point) ==
    LET moved == QAdd(dy, R(QFloor(QDiv(R(point[2] - start[2]), coef))))
        low == IF QLess(R(0), moved) THEN moved ELSE R(0)
    IN  IF QLess(low, R(max_dy)) THEN low ELSE R(max_dy)

\* left_pressed.on_move(event): the capture target alone gets the move.
CapturedMove(point) ==
    IF left_pressed = ScrollObj
    THEN [hover |-> hover, called |-> <<ScrollObj>>,
          dy |-> DragDy(point), start |-> point]
    ELSE [hover |-> CanvasObj_on_move(left_pressed, point, hover).hover,
          called |-> <<left_pressed>>, dy |-> dy, start |-> start]

\* The loop over z_order run whatever left_pressed is.
MoveDispatch_loop(point) ==
    LET r == MoveLoop(1, point, hover, <<>>)
    IN  [hover |-> r.hover, called |-> r.called, dy |-> dy, start |-> start]

\* Canvas.on_move: what the move leaves in hover, dy and ScrollObj.start.
MoveDispatch(point) ==
    IF left_pressed # NoObj
    THEN CapturedMove(point)
    ELSE LET r == MoveLoop(1, point, hover, <<>>)
         IN  [hover |-> r.hover, called |-> r.called, dy |-> dy,
              start |-> start]

on_move(point) ==
    LET r == MoveDispatch(point)
    IN  /\ Event("move")
        /\ pt' = point
        /\ hover' = r.hover
        /\ called' = r.called
        /\ dy' = r.dy
        /\ start' = r.start
        /\ UNCHANGED <<dc_w, dc_h, ncolors, width, height, virtual_h, cell_max,
                       max_dy, left_pressed, bbox, active, tbbox, coef>>
        /\ UNCHANGED hvars

on_leave ==
    /\ Event("leave")
    /\ called' = <<>>
    /\ pt' = NoPoint
    /\ IF hover[ScrollObj] /\ ScrollObj # left_pressed
       THEN hover' = [hover EXCEPT ![ScrollObj] = FALSE]
       ELSE UNCHANGED hover
    /\ UNCHANGED <<dc_w, dc_h, ncolors, width, height, virtual_h, cell_max,
                   max_dy, dy, left_pressed, bbox, active, tbbox, start, coef>>
    /\ UNCHANGED hvars

\* ---- left press
\* ScrollObj.on_left_pressed: the value it returns and the dy it leaves.
ScrollPressDy(point, d) ==
    IF ~is_over(ScrollObj, point) \/ in_bbox(tbbox, point)
    THEN d
    ELSE IF QLess(tbbox[4], R(point[2]))
         THEN QDiv(QAdd(QSub(R(point[2]), tbbox[4]), tbbox[2]), coef)
         ELSE QDiv(R(point[2]), coef)

\* obj.on_left_pressed(event) applied to the state st = [lp, start, dy, called].
ObjPress(obj, point, st) ==
    IF obj = ScrollObj
    THEN [ret |-> is_over(ScrollObj, point),
          st |-> [st EXCEPT !.start = point,
                            !.dy = ScrollPressDy(point, st.dy)]]
    ELSE [ret |-> is_over(obj, point), st |-> st]

\* The loop without line 492: left_pressed is not reset on the way.
RECURSIVE PressLoop_noreset(_, _, _)
PressLoop_noreset(i, point, st) ==
    IF i > Len(z_order)
    THEN st
    ELSE LET visited == [st EXCEPT !.called = Append(st.called, z_order[i])]
             r == ObjPress(z_order[i], point, visited)
         IN  IF r.ret
             THEN [r.st EXCEPT !.lp = z_order[i]]
             ELSE PressLoop_noreset(i + 1, point, r.st)

\* The loop of Canvas.on_left_pressed over z_order from position i on.
RECURSIVE PressLoop(_, _, _)
PressLoop(i, point, st) ==
    IF i > Len(z_order)
    THEN st
    ELSE LET cleared == [st EXCEPT !.lp = NoObj,
                                   !.called = Append(st.called, z_order[i])]
             r == ObjPress(z_order[i], point, cleared)
         IN  IF r.ret
             THEN [r.st EXCEPT !.lp = z_order[i]]
             ELSE PressLoop(i + 1, point, r.st)

on_left_pressed(point) ==
    LET r == PressLoop(1, point, [lp |-> left_pressed, start |-> start,
                                  dy |-> dy, called |-> <<>>])
    IN  /\ Event("press")
        /\ pt' = point
        /\ left_pressed' = r.lp
        /\ start' = r.start
        /\ dy' = r.dy
        /\ called' = r.called
        /\ UNCHANGED <<dc_w, dc_h, ncolors, width, height, virtual_h, cell_max,
                       max_dy, bbox, active, hover, tbbox, coef>>
        /\ UNCHANGED hvars

\* ---- left release
\* picked: the color dialog of AddButtonObj.on_left_released returned a color,
\* which api.add_color appends to the document.
on_left_released(picked) ==
    /\ picked => (left_pressed = AddButtonObj /\ ncolors < MaxColors)
    /\ Event("release")
    /\ pt' = NoPoint
    /\ IF left_pressed # NoObj
       THEN /\ called' = <<left_pressed>>
            /\ ncolors' = IF picked THEN ncolors + 1 ELSE ncolors
            /\ left_pressed' = NoObj
       ELSE /\ called' = <<>>
            /\ UNCHANGED <<ncolors, left_pressed>>
    /\ UNCHANGED <<dc_w, dc_h, width, height, virtual_h, cell_max, max_dy, dy,
                   bbox, active, hover, tbbox, start, coef>>
    /\ UNCHANGED hvars

\* ---- scrolling
\* The upper clamp of lines 472-474 left out.
ScrollDy_noupper(d, delta) ==
    LET moved == QAdd(d, R(delta * mouse_scroll_sensitivity))
    IN  IF QLess(moved, R(0)) \/ virtual_h <= height THEN R(0) ELSE moved

ScrollDy(d, delta) ==
    LET moved == QAdd(d, R(delta * mouse_scroll_sensitivity))
    IN  IF QLess(moved, R(0)) \/ virtual_h <= height
        THEN R(0)
        ELSE IF virtual_h > height /\ QLess(R(virtual_h - height), moved)
             THEN R(virtual_h - height)
             ELSE moved

SetDy(name, d) ==
    /\ Event(name)
    /\ called' = <<>>
    /\ pt' = NoPoint
    /\ dy' = d
    /\ UNCHANGED <<dc_w, dc_h, ncolors, width, height, virtual_h, cell_max,
                   max_dy, left_pressed, bbox, active, hover, tbbox, start, coef>>
    /\ UNCHANGED hvars

on_scroll(delta) == SetDy("scroll", ScrollDy(dy, delta))

QMax0(a) == IF QLess(R(0), a) THEN a ELSE R(0)

go_home == SetDy("key", R(0))

go_end == SetDy("key", R(max_dy))

page_up == SetDy("key", QMax0(QSub(dy, R(height))))

page_down == SetDy("key", QMin(R(max_dy), QAdd(R(height), dy)))

scroll_up == SetDy("key", QMax0(QSub(dy, R(cell_height \div 2))))

scroll_down == SetDy("key", QMin(R(max_dy), QAdd(R(cell_height \div 2), dy)))

CanvasNext ==
    \/ paint
    \/ \E size \in Sizes : resize(size[1], size[2])
    \/ \E n \in 0..MaxColors : edit_colors(n)
    \/ \E p \in Points : on_move(p)
    \/ on_leave
    \/ \E p \in Points : on_left_pressed(p)
    \/ \E picked \in BOOLEAN : on_left_released(picked)
    \/ \E delta \in ScrollDeltas : on_scroll(delta)
    \/ go_home
    \/ go_end
    \/ page_up
    \/ page_down
    \/ scroll_up
    \/ scroll_down

\* Canvas.__init__ builds the canvas and its UndoHistory.
Init == HistoryInit /\ CanvasInit

SpecCanvas == Init /\ [][CanvasNext]_vars

SpecHistory == Init /\ [][HistoryNext]_vars

\* ---- layout: a canvas opened on a document of any size, in any viewport
\* Viewport sizes and pointer positions of the layout runs.  A width below
\* 2 * canvas_border gives a negative cell_max, one below
\* 2 * canvas_border + cell_width gives 0.
LayoutWidths == {30, 90, 120, 180, 240, 360}
LayoutHeights == {60, 120}
LayoutPoints == { <<0, 30>>, <<5, 5>>, <<40, 65>>, <<65, 65>>, <<80, 80>> }

LayoutInit ==
    /\ HistoryInit
    /\ dc_w \in LayoutWidths
    /\ dc_h \in LayoutHeights
    /\ ncolors \in 0..MaxLayoutColors
    /\ CanvasAttrs

LayoutNext ==
    \/ paint
    \/ \E p \in LayoutPoints : on_move(p)

SpecLayout == LayoutInit /\ [][LayoutNext]_vars

\* ------------------------------------------------------------------ claims

HistoryOps == {"add_transaction", "undo", "redo"}

\* C1: from a new UndoHistory, after N add_transaction calls with non-empty
\* undo and redo lists followed by M <= N undo calls, index = N - M and
\* is_redo() = (M > 0).
C1_IndexAfterAddsAndUndos ==
    plain => /\ index = nAdd - nUndo
             /\ (is_redo <=> nUndo > 0)

C1_Witness == plain /\ nAdd = 3 /\ nUndo = 2 /\ is_redo

C4_NeverSavedIsMinusOne ==
    ~everSaved => (saved_index = -1 /\ ~is_saved)

\* C5 as stated: the redo slot undo_stack[i][1] is populated only for
\* positions i <= index.
C5_RedoOnlyUpToIndex ==
    \A i \in 0..(Len(undo_stack) - 1) :
        Truthy(At(undo_stack, i)[2]) => i <= index

\* C5 as amended: the redo slot undo_stack[i][1] is populated only for
\* positions i < len(undo_stack) - 1; the last entry never holds redo actions,
\* every earlier entry may, also at positions greater than index.
C5_RedoOnlyBeforeLast ==
    \A i \in 0..(Len(undo_stack) - 1) :
        Truthy(At(undo_stack, i)[2]) => i < Len(undo_stack) - 1

C5_Witness ==
    /\ index + 1 < Len(undo_stack) - 1
    /\ Truthy(At(undo_stack, index + 1)[2])
    /\ hop = "undo"

Hovered == { o \in Objs : hover[o] }

Max0(a) == IF a > 0 THEN a ELSE 0

\* C6: after a pointer move dispatched with no capture, at most one object of
\* z_order has hover = true.
C6_AtMostOneHover ==
    (ev = "move" /\ left_pressed = NoObj) => Cardinality(Hovered) <= 1

\* C7: after Canvas.on_left_pressed the handlers called are a prefix of
\* z_order, every one but the last returned false, and left_pressed is the
\* last one called when it returned true; when none accepts, all were called
\* and left_pressed is None, whatever it was before the press.
C7_FirstAcceptingObjectCaptures ==
    ev = "press" =>
        LET k == Len(called)
        IN  /\ k >= 1
            /\ called = SubSeq(z_order, 1, k)
            /\ \A i \in 1..(k - 1) : ~is_over(z_order[i], pt)
            /\ IF is_over(z_order[k], pt)
               THEN left_pressed = z_order[k]
               ELSE k = Len(z_order) /\ left_pressed = NoObj

C7_Witness ==
    /\ ev = "press"
    /\ left_pressed = AddButtonObj
    /\ called = <<LogoObj, ScrollObj, AddButtonObj>>

C9_ScrollClamped ==
    ev = "scroll" =>
        /\ QLeq(R(0), dy)
        /\ QLeq(dy, R(Max0(virtual_h - height)))

C9_Witness ==
    /\ ev = "scroll"
    /\ virtual_h > height
    /\ dy = R(virtual_h - height)

\* C10: every paint pass sets max_dy = max(0, virtual_h - viewport_height)
\* from the current viewport size and leaves 0 <= dy <= max_dy.
C10_PaintSetsMaxDyAndClamps ==
    ev \in {"paint", "paint_raised"} =>
        /\ max_dy = Max0(virtual_h - dc_h)
        /\ QLeq(R(0), dy)
        /\ QLeq(dy, R(max_dy))

\* A paint pass has completed: Canvas.width holds the viewport's width.
Painted == width # 0

\* C11: when the content did not overflow the viewport at the last paint
\* (virtual_h <= height), the scroll object is inactive and has no thumb, and
\* no wheel event, press on the scrollbar strip or pointer move gets dy away
\* from 0.
C11_NoOverflowNoScrolling ==
    (Painted /\ virtual_h <= height) =>
        /\ ~active[ScrollObj]
        /\ tbbox = NO_BBOX
        /\ dy = R(0)

\* C12: no paint pass ends in an error because of the viewport width.
C12_PaintNeverRaises == ev # "paint_raised"

\* The hit box AddButtonObj.paint gives the button of the cell at (col, row).
ButtonBBoxAt(col, row, d) ==
    LET x == canvas_border + col * cell_width
        y == canvas_border + row * cell_height
    IN  << R(x + 10), QSub(R(y + 10), d),
           R(x + cell_width - 10), QSub(R(y + cell_height - 10), d) >>

\* C13: after a paint pass the add button sits in the slot the wrapping
\* counter of ColorGrid.paint reaches after the N colors, and for a positive
\* cells_per_row that slot is row N div cells_per_row, column
\* N mod cells_per_row.
C13_AddButtonInNextFreeSlot ==
    ev = "paint" =>
        LET slot == ColorGridSlot(ncolors, cell_max)
        IN  /\ bbox[AddButtonObj] = ButtonBBoxAt(slot.x_count, slot.y_count, dy)
            /\ cell_max > 0 =>
                   /\ slot.y_count = ncolors \div cell_max
                   /\ slot.x_count = ncolors % cell_max

\* x0 < x < x1 and y0 < y < y1 for a box of rationals and an integer point.
StrictlyInside(b, p) ==
    /\ b[1][1] < p[1] * b[1][2]
    /\ p[1] * b[3][2] < b[3][1]
    /\ b[2][1] < p[2] * b[2][2]
    /\ p[2] * b[4][2] < b[4][1]

\* p lies on an edge or a corner of the box b.
OnEdge(b, p) ==
    /\ QLeq(b[1], R(p[1])) /\ QLeq(R(p[1]), b[3])
    /\ QLeq(b[2], R(p[2])) /\ QLeq(R(p[2]), b[4])
    /\ R(p[1]) \in {b[1], b[3]} \/ R(p[2]) \in {b[2], b[4]}

Box10 == <<R(0), R(0), R(10), R(10)>>

\* C14: in_bbox(bbox, point) is true exactly when bbox[0] < x < bbox[2] and
\* bbox[1] < y < bbox[3], so a point on an edge or a corner is outside and
\* NO_BBOX contains no point; a pointer move leaves hover set on the active
\* objects it asked exactly when the point is strictly inside their box.
C14_InBBoxStrict ==
    /\ \A o \in Objs : \A p \in LayoutPoints :
          /\ is_over(o, p) <=> StrictlyInside(bbox[o], p)
          /\ OnEdge(bbox[o], p) => ~is_over(o, p)
          /\ bbox[o] = NO_BBOX => ~is_over(o, p)
    /\ ~in_bbox(Box10, <<0, 5>>)
    /\ in_bbox(Box10, <<5, 5>>)
    /\ ~in_bbox(NO_BBOX, <<0, 0>>)
    /\ ev = "move" =>
          \A i \in 1..Len(called) :
              active[called[i]] =>
                  (hover[called[i]] <=> StrictlyInside(bbox[called[i]], pt))

C14_Witness ==
    /\ ev = "move"
    /\ called = z_order
    /\ bbox[BackgroundObj] # NO_BBOX
    /\ OnEdge(bbox[BackgroundObj], pt)
    /\ ~hover[BackgroundObj]

\* What C15 says of undo(): at index > 0 it runs the undo actions of the
\* transaction at index, in order, decrements index and notifies; at index 0
\* it runs nothing, changes nothing and does not notify.  A call notifies
\* exactly when it changes index.
C15_UndoStep ==
    /\ (hop' = "undo" /\ index > 0) =>
          /\ executed' = supplied[index][1]
          /\ index' = index - 1
          /\ undo_stack' = undo_stack
          /\ notified'
    /\ (hop' = "undo" /\ index = 0) =>
          /\ executed' = <<>>
          /\ ~notified'
          /\ UNCHANGED <<undo_stack, index, saved_index>>
    /\ hop' \in HistoryOps => (notified' <=> index' # index)

\* redo() runs the redo actions supplied with the transaction at index + 1,
\* in order, and moves index back onto it.
C15_RedoRestores ==
    /\ executed' = supplied[index + 1][2]
    /\ index' = index + 1
    /\ undo_stack' = undo_stack
    /\ notified'

\* C15 as stated: undo() is as above and a redo() right after an undo() that
\* moved index runs exactly the redo actions supplied with the undone
\* transaction and restores index, with undo_stack unchanged.
C15_UndoRedoPairedInverses ==
    [][ /\ C15_UndoStep
        /\ (hop' = "redo" /\ hop = "undo" /\ notified) => C15_RedoRestores
      ]_vars

\* C15 as amended: the redo() restores index when the undone transaction was
\* supplied with a non-empty redo list; when its redo list is empty, redo()
\* runs nothing, leaves index where undo() put it and does not notify.
C15_UndoRedoPairedWhenRedoSupplied ==
    [][ /\ C15_UndoStep
        /\ (hop' = "redo" /\ hop = "undo" /\ notified) =>
              IF supplied[index + 1][2] # <<>>
              THEN C15_RedoRestores
              ELSE /\ executed' = <<>>
                   /\ ~notified'
                   /\ UNCHANGED <<undo_stack, index>>
      ]_vars

C15_Witness ==
    /\ hop = "redo"
    /\ hprev = "undo"
    /\ notified
    /\ executed = <<"r2", "r1">>
    /\ index = 2
    /\ supplied[index] = <<<<"u1", "u2">>, <<"r2", "r1">>>>

\* C16: whenever is_saved() is true, the transactions currently applied
\* (entries 1 .. index of the log) are the ones that were applied at the last
\* set_saved() call, or none if set_saved() was never called.
C16_SavedMeansSameTransactions ==
    is_saved => savedApplied = SubSeq(supplied, 1, index)

\* C20: undo_stack is never empty, 0 <= index <= len(undo_stack) - 1, and the
\* last entry holds no redo actions, so that is_redo() is false at the tip: a
\* redo() there runs nothing and index cannot move past the end.
C20_IndexInsideStackTipHasNoRedo ==
    /\ Len(undo_stack) >= 1
    /\ 0 <= index
    /\ index <= Len(undo_stack) - 1
    /\ ~Truthy(At(undo_stack, Len(undo_stack) - 1)[2])
    /\ index = Len(undo_stack) - 1 => ~is_redo

C20_Witness ==
    /\ hop = "redo"
    /\ hprev = "redo"
    /\ ~notified
    /\ index = Len(undo_stack) - 1
    /\ index = MaxStack - 1

\* C17: an object whose active flag is false since the last paint is never
\* made the capture target by a left press and never has its
\* on_left_released handler run.
C17_InactiveNeverCaptures ==
    /\ (ev = "press" /\ left_pressed # NoObj) => active[left_pressed]
    /\ (ev = "release" /\ called # <<>>) => active[called[1]]

\* C18: after the first paint, 0 <= dy <= max_dy holds right after every
\* wheel scroll, key scroll (go_home .. scroll_down), pointer move and left
\* press.
C18_DyInRangeAfterEveryWrite ==
    (Painted /\ ev \in {"scroll", "key", "move", "press"}) =>
        /\ QLeq(R(0), dy)
        /\ QLeq(dy, R(max_dy))

\* C19: after a paint pass with cells_per_row >= 1 the bottom of the cell of
\* the add button, border + (row + 1) * cell_height, is not below virtual_h.
\* The button's hit box ends 10 above the bottom of its cell, shifted by dy.
C19_AddButtonInsideVirtualH ==
    (ev = "paint" /\ cell_max >= 1) =>
        QLeq(QAdd(QAdd(bbox[AddButtonObj][4], dy), R(10)), R(virtual_h))

====
